---------------------------- MODULE Spec2Model ----------------------------
(***************************************************************************)
(* Model of the two batch drivers of the benchmarking harness:             *)
(*   scripts/batch_run_task1.py  (Mandelbrot timing pipeline)              *)
(*   scripts/batch_run_task2.py  (N-body batch over a rewritten config)    *)
(*                                                                         *)
(* Python values are encoded as follows.                                   *)
(*   Optional value : <<>> is None, <<v>> is the value v.                  *)
(*   float          : the IEEE double sign * man * 2^exp, written           *)
(*                    <<sign, man, exp>> with sign in {1, -1}, man an odd   *)
(*                    natural number of at most 53 bits and exp an integer; *)
(*                    man is <<>> and exp is 0 for 0.0 and -0.0.  Doubles   *)
(*                    are taken in their normal range (no overflow, no      *)
(*                    subnormal numbers).                                   *)
(*   big natural    : a sequence of limbs below 2^24, least significant     *)
(*                    first, without leading zero limbs; <<>> is 0.         *)
(*   str            : a sequence of tokens; " " is one blank, every other  *)
(*                    token is a run of non-blank characters.              *)
(*   dict           : a function whose DOMAIN is the set of keys.          *)
(***************************************************************************)
EXTENDS Integers, Sequences, FiniteSets, TLC

VARIABLES
    \* ---- batch_run_task1.py ----
    nthreads_list,      \* argument of collect_timings
    runs_per_config,    \* argument of collect_timings
    pc,                 \* stage of main (task1); it stays where an exception left it
    nt_idx,             \* outer loop index of collect_timings (1-based)
    run_idx,            \* inner loop variable r of collect_timings
    invocations,        \* external runs of mandelbrot.exe so far, with their results
    results,            \* local list `results` of collect_timings
    timings,            \* main's / aggregate_by_nthreads' `timings`
    timings_csv,        \* Optional content of timings_task1.csv written by this run
    aggregated,         \* result of aggregate_by_nthreads
    t_base,             \* Optional local t_base of compute_metrics
    base_nthreads,      \* Optional local base_nthreads of compute_metrics
    metrics,            \* result of compute_metrics
    metrics_csv,        \* Optional content of metrics_task1.csv written by this run
    log,                \* lines printed by compute_metrics
    err,                \* name of the exception that ended the run, "" if none
    mandel_exe,         \* MANDEL_EXE.exists()
    \* ---- batch_run_task2.py ----
    pc2,                \* position of main (task2)
    run_script_exists,  \* RUN_SCRIPT.exists()
    config_file,        \* Optional content of CONFIG_PATH
    config_before,      \* content of CONFIG_PATH when the batch started
    original_config,    \* Optional local original_config of main
    summary_csv,        \* Optional lines of nbody_batch_summary.csv on disk
    outf_buffer,        \* lines written to outf and not yet flushed to the file
    cfg_idx,            \* index into BATCH_CONFIGS (1-based)
    target_idx,         \* index into TARGETS (1-based)
    omp_idx,            \* index into BATCH_CONFIGS_OMP (1-based)
    events,             \* config writes and launcher invocations, in order
    skipped,            \* launcher runs so far that main skipped
    exit_code           \* Optional exit status of the process

vars1 == <<nthreads_list, runs_per_config, pc, nt_idx, run_idx, invocations,
           results, timings, timings_csv, aggregated, t_base, base_nthreads,
           metrics, metrics_csv, log, err, mandel_exe>>

vars2 == <<pc2, run_script_exists, config_file, config_before, original_config,
           summary_csv, outf_buffer, cfg_idx, target_idx, omp_idx, events, skipped,
           exit_code>>

vars == <<vars1, vars2>>

----------------------------------------------------------------------------
(* Bounds of the explored inputs.                                          *)

MaxLen == 2
MaxRuns == 2
MaxTrials == 3
MaxAgg == 3
MaxSkipped == 1

----------------------------------------------------------------------------
(* Generic helpers.                                                        *)

None == <<>>
Some(v) == <<v>>

BoundedSeq(S, n) == UNION {[1..k -> S] : k \in 0..n}

----------------------------------------------------------------------------
(* Python floats.                                                          *)

LimbBits == 24
LimbBase == 16777216

Limb(a, i) == IF i >= 1 /\ i <= Len(a) THEN a[i] ELSE 0

\* a without its leading zero limbs.
RECURSIVE BigTrim(_)
BigTrim(a) ==
    IF a = <<>> \/ a[Len(a)] # 0 THEN a ELSE BigTrim(SubSeq(a, 1, Len(a) - 1))

\* The natural number n < 2^31 in limbs, and back.
BigOfInt(n) == BigTrim(<<n % LimbBase, n \div LimbBase>>)
BigToInt(a) == Limb(a, 1) + Limb(a, 2) * LimbBase

\* -1, 0 or 1 as a < b, a = b or a > b.
RECURSIVE CmpLimbs(_, _, _)
CmpLimbs(a, b, i) ==
    IF i = 0 THEN 0
    ELSE IF a[i] # b[i] THEN (IF a[i] < b[i] THEN -1 ELSE 1)
    ELSE CmpLimbs(a, b, i - 1)

BigCmp(a, b) ==
    IF Len(a) # Len(b) THEN (IF Len(a) < Len(b) THEN -1 ELSE 1)
    ELSE CmpLimbs(a, b, Len(a))

RECURSIVE AddLimbs(_, _, _, _)
AddLimbs(a, b, i, carry) ==
    IF i > Len(a) /\ i > Len(b) THEN (IF carry = 0 THEN <<>> ELSE <<carry>>)
    ELSE LET t == Limb(a, i) + Limb(b, i) + carry
         IN  <<t % LimbBase>> \o AddLimbs(a, b, i + 1, t \div LimbBase)

BigAdd(a, b) == AddLimbs(a, b, 1, 0)

\* a - b for a >= b.
RECURSIVE SubLimbs(_, _, _, _)
SubLimbs(a, b, i, borrow) ==
    IF i > Len(a) THEN <<>>
    ELSE LET t == a[i] - Limb(b, i) - borrow
         IN  <<(t + LimbBase) % LimbBase>>
                 \o SubLimbs(a, b, i + 1, IF t < 0 THEN 1 ELSE 0)

BigSub(a, b) == BigTrim(SubLimbs(a, b, 1, 0))

\* a * k for 0 <= k <= 100.
RECURSIVE MulLimbs(_, _, _, _)
MulLimbs(a, k, i, carry) ==
    IF i > Len(a) THEN (IF carry = 0 THEN <<>> ELSE <<carry>>)
    ELSE LET t == a[i] * k + carry
         IN  <<t % LimbBase>> \o MulLimbs(a, k, i + 1, t \div LimbBase)

BigMulSmall(a, k) == IF k = 0 THEN <<>> ELSE MulLimbs(a, k, 1, 0)

\* a * scale for scale a power of ten.
RECURSIVE BigMulPow10(_, _)
BigMulPow10(a, scale) ==
    IF scale = 1 THEN a ELSE BigMulPow10(BigMulSmall(a, 10), scale \div 10)

\* a * 2^k
BigShl(a, k) ==
    IF a = <<>> \/ k = 0 THEN a
    ELSE LET q == k \div LimbBits
             r == k % LimbBits
             lo == 2^(LimbBits - r)
         IN  BigTrim([i \in 1..q |-> 0]
                     \o [i \in 1..(Len(a) + 1) |->
                            (Limb(a, i) % lo) * 2^r + Limb(a, i - 1) \div lo])

\* floor(a / 2^k)
BigShr(a, k) ==
    LET q == k \div LimbBits
        r == k % LimbBits
    IN  IF Len(a) <= q THEN <<>>
        ELSE BigTrim([i \in 1..(Len(a) - q) |->
                         a[i + q] \div 2^r
                             + (Limb(a, i + q + 1) % 2^r) * 2^(LimbBits - r)])

\* a % 2^k = 0
BigLowZero(a, k) ==
    /\ \A i \in 1..(k \div LimbBits) : Limb(a, i) = 0
    /\ Limb(a, k \div LimbBits + 1) % 2^(k % LimbBits) = 0

\* Bit j of a, bit 0 being the lowest.
BigBit(a, j) == (Limb(a, j \div LimbBits + 1) \div 2^(j % LimbBits)) % 2

\* The number of bits of a > 0.
BigBitLen(a) ==
    LimbBits * (Len(a) - 1)
        + (CHOOSE k \in 1..LimbBits : 2^(k - 1) <= a[Len(a)] /\ a[Len(a)] < 2^k)

\* The number of zero bits a > 0 ends with.
BigTrailingZeros(a) ==
    LET i == CHOOSE j \in 1..Len(a) : a[j] # 0 /\ \A h \in 1..(j - 1) : a[h] = 0
    IN  LimbBits * (i - 1)
            + (CHOOSE k \in 0..(LimbBits - 1) :
                   a[i] % 2^k = 0 /\ a[i] % 2^(k + 1) # 0)

\* The float sign * man * 2^exp for a natural man of at most 53 bits.
MakeFloat(sign, man, exp) ==
    IF man = <<>> THEN <<sign, <<>>, 0>>
    ELSE <<sign, BigShr(man, BigTrailingZeros(man)), exp + BigTrailingZeros(man)>>

\* One more bit of the quotient of a long division by B, from the doubled
\* remainder R2, the doubled quotient q2 and the number n of bits so far.
NextBit(R2, q2, n, B) ==
    IF BigCmp(R2, B) >= 0
      THEN <<BigSub(R2, B), [q2 EXCEPT ![1] = @ + 1], n + 1>>
      ELSE <<R2, q2, n + 1>>

\* st holds the remainder (below B), the bits of the quotient so far and
\* their number; the division stops at 53 bits or when nothing remains.
DivStep(st, B) ==
    IF st[1] = <<>> \/ st[3] = 53 THEN st
    ELSE NextBit(BigShl(st[1], 1), BigShl(st[2], 1), st[3], B)

RECURSIVE DivSteps(_, _, _)
DivSteps(st, B, n) == IF n = 0 THEN st ELSE DivSteps(DivStep(st, B), B, n - 1)

RECURSIVE DivLoop(_, _)
DivLoop(st, B) ==
    IF st[1] = <<>> \/ st[3] = 53 THEN st ELSE DivLoop(DivSteps(st, B, 8), B)

\* The quotient bits of the finished division st, rounded to nearest (ties
\* to even): c compares twice the remainder with B.
RoundBit(st, c) ==
    IF c > 0 \/ (c = 0 /\ st[2][1] % 2 = 1)
      THEN <<BigAdd(st[2], <<1>>), st[3]>>
      ELSE <<st[2], st[3]>>

RoundQuot(st, B) ==
    IF st[1] = <<>> THEN <<st[2], st[3]>>
    ELSE RoundBit(st, BigCmp(BigShl(st[1], 1), B))

\* For B <= A < 2B: the quotient A/B in [1, 2) to 53 bits, correctly rounded
\* (ties to even), as <<q, n>> standing for q / 2^(n - 1).
NearestQuot(A, B) == RoundQuot(DivLoop(<<BigSub(A, B), <<1>>, 1>>, B), B)

\* The float sign * (q / 2^(n - 1)) * 2^e for qn = <<q, n>>.
FloatOfQuot(sign, qn, e) == MakeFloat(sign, qn[1], e - (qn[2] - 1))

\* The float nearest to sign * (A / B) * 2^e for A and B of the same number
\* of bits.
AlignedRatio(sign, A, B, e) ==
    IF BigCmp(A, B) < 0
      THEN FloatOfQuot(sign, NearestQuot(BigShl(A, 1), B), e - 1)
      ELSE FloatOfQuot(sign, NearestQuot(A, B), e)

\* The same for A of la bits and B of lb bits.
RatioOfLengths(sign, A, B, e, la, lb) ==
    AlignedRatio(sign, BigShl(A, IF lb > la THEN lb - la ELSE 0),
                 BigShl(B, IF la > lb THEN la - lb ELSE 0), e + (la - lb))

\* The float nearest to sign * (A / B) * 2^e for naturals A and B > 0.
FloatOfRatio(sign, A, B, e) ==
    IF A = <<>> THEN <<sign, <<>>, 0>>
    ELSE RatioOfLengths(sign, A, B, e, BigBitLen(A), BigBitLen(B))

\* The float nearest to the fraction n / d, d > 0.
FloatOf(n, d) ==
    FloatOfRatio(IF n < 0 THEN -1 ELSE 1, BigOfInt(IF n < 0 THEN -n ELSE n),
                 BigOfInt(d), 0)

IsZero(x) == x[2] = <<>>

Neg(x) == <<-x[1], x[2], x[3]>>

\* 0.0 and 1.0
Zero == <<1, <<>>, 0>>
One == <<1, <<1>>, 0>>

\* x < y
FloatLess(x, y) ==
    LET e == IF x[3] < y[3] THEN x[3] ELSE y[3]
        c == BigCmp(BigShl(x[2], x[3] - e), BigShl(y[2], y[3] - e))
    IN  IF IsZero(x) /\ IsZero(y) THEN FALSE
        ELSE IF IsZero(x) THEN y[1] = 1
        ELSE IF IsZero(y) THEN x[1] = -1
        ELSE IF x[1] # y[1] THEN x[1] < y[1]
        ELSE IF x[1] = 1 THEN c < 0 ELSE c > 0

\* f"{x:.kf}" for scale = 10^k: the sign and the digits as a natural number
\* (below 2^31), the multiple of 1/scale nearest to x, ties to even.
RoundScaled(x, scale) ==
    IF IsZero(x) THEN <<x[1], 0>>
    ELSE LET N == BigMulPow10(x[2], scale)
             k == -x[3]
             fl == BigShr(N, k)
             up == /\ BigBit(N, k - 1) = 1
                   /\ (~BigLowZero(N, k - 1) \/ BigBit(N, k) = 1)
         IN  IF x[3] >= 0 THEN <<x[1], BigToInt(BigShl(N, x[3]))>>
             ELSE <<x[1], BigToInt(fl) + (IF up THEN 1 ELSE 0)>>

----------------------------------------------------------------------------
(* Arithmetic on floats.                                                   *)

\* The durations of the trials given to aggregate_by_nthreads: 1e-06, 0.3
\* and 1.5.
Durations == {FloatOf(1, 1000000), FloatOf(3, 10), FloatOf(3, 2)}

\* The keys and the means given to compute_metrics: 0.0, 3.0, 5.5 and 10.0.
MetricKeys == {1, 2, 3, 4, 8}
MeanInputs == {Zero, FloatOf(3, 1), FloatOf(11, 2), FloatOf(10, 1)}

\* x / y for floats, y not zero: the exact quotient, rounded.
Quotient(x, y) == FloatOfRatio(x[1] * y[1], x[2], y[2], x[3] - y[3])

\* x / k for a float x and an int k # 0; k is converted to float, which is
\* exact for |k| < 2^31.
QuotientInt(x, k) ==
    FloatOfRatio(IF k < 0 THEN -x[1] ELSE x[1], x[2],
                 BigOfInt(IF k < 0 THEN -k ELSE k), x[3])

\* The least exponent among the non-zero floats of a non-empty sequence.
MinExp(s) ==
    LET E == {s[k][3] : k \in {j \in 1..Len(s) : ~IsZero(s[j])}}
    IN  IF E = {} THEN 0 ELSE CHOOSE e \in E : \A f \in E : e <= f

\* The sum of the floats of the given sign in s, in units of 2^e.
RECURSIVE SumSigned(_, _, _)
SumSigned(s, sign, e) ==
    IF s = <<>> THEN <<>>
    ELSE IF Head(s)[1] = sign /\ ~IsZero(Head(s))
      THEN BigAdd(BigShl(Head(s)[2], Head(s)[3] - e), SumSigned(Tail(s), sign, e))
      ELSE SumSigned(Tail(s), sign, e)

\* statistics.mean of a non-empty list of floats: the exact sum of the floats
\* divided by their number, rounded once.
StatisticsMean(t_list) ==
    LET e == MinExp(t_list)
        pos == SumSigned(t_list, 1, e)
        neg == SumSigned(t_list, -1, e)
        ge == BigCmp(pos, neg) >= 0
    IN  FloatOfRatio(IF ge THEN 1 ELSE -1,
                     IF ge THEN BigSub(pos, neg) ELSE BigSub(neg, pos),
                     BigOfInt(Len(t_list)), e)

\* The decimal literals n / d of the explored stderr texts: 0, 1 and 0.3.
Literals == {<<0, 1>>, <<1, 1>>, <<3, 10>>}

\* The floats, quotients and means of the explored inputs are computed once
\* and kept in tables (f @@ <<>> is f, tabulated by TLC); on any other
\* argument the operators below compute.
KnownLiterals == [p \in Literals |-> FloatOf(p[1], p[2])] @@ <<>>

KnownQuotients ==
    [p \in MeanInputs \X (MeanInputs \ {Zero}) |-> Quotient(p[1], p[2])] @@ <<>>

KnownQuotientsInt ==
    [p \in {KnownQuotients[q] : q \in DOMAIN KnownQuotients} \X MetricKeys |->
        QuotientInt(p[1], p[2])] @@ <<>>

\* The times a run that collect_timings records may report: 0.0 and 0.3.
ReportedTimes == {Zero, KnownLiterals[<<3, 10>>]}

KnownMeans ==
    [t_list \in (BoundedSeq(Durations, MaxTrials)
                    \cup BoundedSeq(ReportedTimes, MaxLen * MaxRuns)) \ {<<>>} |->
        StatisticsMean(t_list)] @@ <<>>

\* The entry of the table at x, and v for an x the table does not hold.
Lookup(table, x, v) == IF x \in DOMAIN table THEN table[x] ELSE v

\* float() of the decimal literal n / d
FloatLiteral(n, d) == Lookup(KnownLiterals, <<n, d>>, FloatOf(n, d))

\* x / y for floats
FloatDiv(x, y) == Lookup(KnownQuotients, <<x, y>>, Quotient(x, y))

\* x / k for a float x and an int k
FloatDivInt(x, k) == Lookup(KnownQuotientsInt, <<x, k>>, QuotientInt(x, k))

\* statistics.mean(t_list)
Mean(t_list) == Lookup(KnownMeans, t_list, StatisticsMean(t_list))

----------------------------------------------------------------------------
(* batch_run_task1.py : run_mandelbrot                                     *)

NPOINTS == 5000

Keys == {1, 2}
SizeParams == {100, NPOINTS}

DigitTokens == {"0", "1", "2", "3", "5", "234567"}

DigitVal(tok) ==
    CASE tok = "0" -> 0
      [] tok = "1" -> 1
      [] tok = "2" -> 2
      [] tok = "3" -> 3
      [] tok = "5" -> 5
      [] tok = "234567" -> 234567

DigitLen(tok) == IF tok = "234567" THEN 6 ELSE 1

RECURSIVE Pow10(_)
Pow10(n) == IF n = 0 THEN 1 ELSE 10 * Pow10(n - 1)

\* str.strip(): drop the leading and the trailing blanks.
RECURSIVE LStrip(_)
LStrip(s) == IF s # <<>> /\ Head(s) = " " THEN LStrip(Tail(s)) ELSE s

RECURSIVE RStrip(_)
RStrip(s) ==
    IF s # <<>> /\ s[Len(s)] = " " THEN RStrip(SubSeq(s, 1, Len(s) - 1)) ELSE s

Strip(s) == RStrip(LStrip(s))

\* line.startswith("TIME_SECONDS=")
StartsWithTime(line) ==
    Len(line) >= 2 /\ line[1] = "TIME_SECONDS" /\ line[2] = "="

\* line.split("=", 1)[1] for a line that contains "=".
RECURSIVE AfterFirstEq(_)
AfterFirstEq(line) ==
    IF line = <<>> THEN <<>>
    ELSE IF Head(line) = "=" THEN Tail(line)
    ELSE AfterFirstEq(Tail(line))

\* value_str.replace(",", ".")
CommaToPoint(s) == [k \in 1..Len(s) |-> IF s[k] = "," THEN "." ELSE s[k]]

\* The fraction <<n, d>> an unsigned decimal literal stands for; None when s
\* is not such a literal.
DecimalOf(s) ==
    IF Len(s) = 1 /\ s[1] \in DigitTokens
        THEN <<DigitVal(s[1]), 1>>
    ELSE IF Len(s) = 2 /\ s[1] \in DigitTokens /\ s[2] = "."
        THEN <<DigitVal(s[1]), 1>>
    ELSE IF Len(s) = 2 /\ s[1] = "." /\ s[2] \in DigitTokens
        THEN <<DigitVal(s[2]), Pow10(DigitLen(s[2]))>>
    ELSE IF Len(s) = 3 /\ s[1] \in DigitTokens /\ s[2] = "." /\ s[3] \in DigitTokens
        THEN <<DigitVal(s[1]) * Pow10(DigitLen(s[3])) + DigitVal(s[3]),
               Pow10(DigitLen(s[3]))>>
    ELSE None

\* The double nearest to the fraction p; None is kept.
FloatOfDecimal(p) == IF p = None THEN None ELSE Some(FloatLiteral(p[1], p[2]))

\* float() of an unsigned decimal literal, the double nearest to it; None
\* stands for ValueError.
ParseUnsigned(s) == FloatOfDecimal(DecimalOf(s))

\* The parsed magnitude m under the sign character; None is kept.
WithSign(sign, m) ==
    IF m = None THEN None
    ELSE IF sign = "-" THEN Some(Neg(m[1]))
    ELSE m

\* float() of a text without blanks around it.
ParseStripped(u) ==
    IF u # <<>> /\ u[1] \in {"-", "+"}
        THEN WithSign(u[1], ParseUnsigned(Tail(u)))
        ELSE ParseUnsigned(u)

\* float(value_str); None stands for ValueError.
ParseFloat(s) == ParseStripped(Strip(s))

\* Index of the first stderr line whose stripped form starts with
\* "TIME_SECONDS=", 0 when there is none (the loop of lines 41-47).
RECURSIVE FirstTimeLineFrom(_, _)
FirstTimeLineFrom(stderr, k) ==
    IF k > Len(stderr) THEN 0
    ELSE IF StartsWithTime(Strip(stderr[k])) THEN k
    ELSE FirstTimeLineFrom(stderr, k + 1)

\* The loop of lines 41-47 without its `break`: the last matching line wins.
LastTimeLine(stderr) ==
    LET M == {k \in 1..Len(stderr) : StartsWithTime(Strip(stderr[k]))}
    IN  IF M = {} THEN 0 ELSE CHOOSE k \in M : \A j \in M : j <= k

FirstTimeLine(stderr) == FirstTimeLineFrom(stderr, 1)

\* Lines 40-55 of run_mandelbrot: the parsed time, or None when ValueError is
\* raised (no matching line, or float() rejects the value).
ParseTimeSeconds(stderr) ==
    LET k == FirstTimeLine(stderr)
    IN  IF k = 0 THEN None
        ELSE ParseFloat(CommaToPoint(Strip(AfterFirstEq(Strip(stderr[k])))))

\* The stderr texts the external program is let to produce.
StderrSet ==
    { <<>>,
      << <<"junk">> >>,
      << <<"junk">>, <<" ", "TIME_SECONDS", "=", "0", ",", "3", " ">>, <<"more">> >>,
      << <<"TIME_SECONDS", "=", "0">>, <<"TIME_SECONDS", "=", "1">> >>,
      << <<"TIME_SECONDS", "=", "abc">> >> }

\* The (return code, stderr) pairs the external program may end with.
ProcResults ==
    ({0} \X StderrSet)
        \cup ({1} \X {<<>>, << <<"TIME_SECONDS", "=", "0">>, <<"TIME_SECONDS", "=", "1">> >>})

\* Lines 49-55 of run_mandelbrot: ValueError when no time was parsed, else
\* the time is returned.
ParsedOutcome(t) ==
    IF t = None
        THEN [invoked |-> TRUE, raised |-> "ValueError", time |-> None]
        ELSE [invoked |-> TRUE, raised |-> "", time |-> t]

\* run_mandelbrot without the return code check of lines 34-38.
run_mandelbrot_unchecked(exe_exists, returncode, stderr) ==
    IF ~exe_exists
        THEN [invoked |-> FALSE, raised |-> "FileNotFoundError", time |-> None]
    ELSE ParsedOutcome(ParseTimeSeconds(stderr))

\* Outcome of one call run_mandelbrot(nt, npoints) in a given environment:
\* whether the external program was started, and either the returned time
\* or the exception raised.
run_mandelbrot(exe_exists, returncode, stderr) ==
    IF ~exe_exists
        THEN [invoked |-> FALSE, raised |-> "FileNotFoundError", time |-> None]
    ELSE IF returncode # 0
        THEN [invoked |-> TRUE, raised |-> "RuntimeError", time |-> None]
    ELSE ParsedOutcome(ParseTimeSeconds(stderr))

----------------------------------------------------------------------------
(* batch_run_task1.py : collect_timings                                    *)

CollectDone == nt_idx > Len(nthreads_list) \/ runs_per_config = 0

\* The inner loop written as range(1, runs_per_config).
NextPairShort(i, r, R) == IF r + 1 < R THEN <<i, r + 1>> ELSE <<i + 1, 1>>

\* The loop variables after the iteration (i, r): `for nt in nthreads_list`
\* around `for r in range(1, runs_per_config + 1)`.
NextPair(i, r, R) == IF r < R THEN <<i, r + 1>> ELSE <<i + 1, 1>>

\* One iteration of the nested loops of collect_timings (lines 65-70).
CollectStep ==
    /\ pc = "collect"
    /\ err = ""
    /\ ~CollectDone
    /\ \E p \in ProcResults :
       \E out \in {run_mandelbrot(mandel_exe, p[1], p[2])} :
         LET nt == nthreads_list[nt_idx]
             returncode == p[1]
             stderr == p[2]
         IN  /\ invocations' =
                    IF out.invoked
                      THEN Append(invocations,
                                  [nthreads |-> nt, npoints |-> NPOINTS, run |-> run_idx,
                                   returncode |-> returncode, stderr |-> stderr])
                      ELSE invocations
             /\ IF out.raised # ""
                  THEN /\ err' = out.raised
                       /\ UNCHANGED <<results, nt_idx, run_idx>>
                  ELSE /\ results' = Append(results,
                                            <<nt, NPOINTS, run_idx, out.time[1]>>)
                       /\ nt_idx' = NextPair(nt_idx, run_idx, runs_per_config)[1]
                       /\ run_idx' = NextPair(nt_idx, run_idx, runs_per_config)[2]
                       /\ err' = err
    /\ UNCHANGED <<nthreads_list, runs_per_config, pc, timings, timings_csv,
                   aggregated, t_base, base_nthreads, metrics, metrics_csv, log,
                   mandel_exe, vars2>>

\* The environment removes the executable while the batch is collecting.
ExeRemoved ==
    /\ pc = "collect"
    /\ err = ""
    /\ mandel_exe
    /\ mandel_exe' = FALSE
    /\ UNCHANGED <<nthreads_list, runs_per_config, pc, nt_idx, run_idx,
                   invocations, results, timings, timings_csv, aggregated,
                   t_base, base_nthreads, metrics, metrics_csv, log, err, vars2>>

\* Line 72 and line 162: collect_timings returns its list to main.
CollectReturn ==
    /\ pc = "collect"
    /\ err = ""
    /\ CollectDone
    /\ timings' = results
    /\ pc' = "save_timings"
    /\ UNCHANGED <<nthreads_list, runs_per_config, nt_idx, run_idx, invocations,
                   results, timings_csv, aggregated, t_base, base_nthreads,
                   metrics, metrics_csv, log, err, mandel_exe, vars2>>

----------------------------------------------------------------------------
(* batch_run_task1.py : save_timings_csv                                   *)

\* f"{x:.6f}": the sign and the number of millionths nearest to x.
Fmt6(x) == RoundScaled(x, 1000000)

TimingsHeader == <<"nthreads", "npoints", "run_index", "time">>

TimingsCsvRows(rows) ==
    [k \in 1..Len(rows) |-> <<rows[k][1], rows[k][2], rows[k][3], Fmt6(rows[k][4])>>]

SaveTimingsCsv ==
    /\ pc = "save_timings"
    /\ timings_csv' = Some([header |-> TimingsHeader, rows |-> TimingsCsvRows(timings)])
    /\ pc' = "aggregate"
    /\ UNCHANGED <<nthreads_list, runs_per_config, nt_idx, run_idx, invocations,
                   results, timings, aggregated, t_base, base_nthreads, metrics,
                   metrics_csv, log, err, mandel_exe, vars2>>

----------------------------------------------------------------------------
(* batch_run_task1.py : aggregate_by_nthreads                              *)

\* times_by_nt[nt]: the times of the trials of key nt, in input order.
RECURSIVE TimesByNt(_, _)
TimesByNt(rows, nt) ==
    IF rows = <<>> THEN <<>>
    ELSE IF Head(rows)[1] = nt
        THEN <<Head(rows)[4]>> \o TimesByNt(Tail(rows), nt)
        ELSE TimesByNt(Tail(rows), nt)

\* npoints_by_nt[nt]: the size parameter of the last trial of key nt.
RECURSIVE NpointsByNt(_, _)
NpointsByNt(rows, nt) ==
    IF rows[Len(rows)][1] = nt THEN rows[Len(rows)][2]
    ELSE NpointsByNt(SubSeq(rows, 1, Len(rows) - 1), nt)

\* The keys of the dict times_by_nt in insertion (first appearance) order.
RECURSIVE DictKeys(_)
DictKeys(rows) ==
    IF rows = <<>> THEN <<>>
    ELSE LET init == DictKeys(SubSeq(rows, 1, Len(rows) - 1))
             nt == rows[Len(rows)][1]
         IN  IF \E k \in 1..Len(init) : init[k] = nt THEN init ELSE Append(init, nt)

SetMin(S) == CHOOSE x \in S : \A y \in S : x <= y

RECURSIVE SortedSet(_)
SortedSet(S) ==
    IF S = {} THEN <<>> ELSE <<SetMin(S)>> \o SortedSet(S \ {SetMin(S)})

Range(q) == {q[k] : k \in 1..Len(q)}

\* The keys taken in dict order, without sorted().
KeyOrderUnsorted(rows) == DictKeys(rows)

\* sorted(times_by_nt.keys())
KeyOrder(rows) == SortedSet(Range(DictKeys(rows)))

aggregate_by_nthreads(rows) ==
    LET order == KeyOrder(rows)
    IN  [k \in 1..Len(order) |->
            <<order[k], NpointsByNt(rows, order[k]), Mean(TimesByNt(rows, order[k]))>>]

Aggregate ==
    /\ pc = "aggregate"
    /\ aggregated' = aggregate_by_nthreads(timings)
    /\ pc' = "compute"
    /\ UNCHANGED <<nthreads_list, runs_per_config, nt_idx, run_idx, invocations,
                   results, timings, timings_csv, t_base, base_nthreads, metrics,
                   metrics_csv, log, err, mandel_exe, vars2>>

----------------------------------------------------------------------------
(* batch_run_task1.py : compute_metrics                                    *)

HasKeyOne(agg) == \E k \in 1..Len(agg) : agg[k][1] = 1

\* The baseline taken from the first entry of the sequence.
BaseIndexFirstEntry(agg) == CHOOSE k \in 1..Len(agg) : k = 1

\* Index of the entry compute_metrics takes its baseline from (lines 111-120):
\* the first entry of key 1, else the first entry of minimal key.
BaseIndex(agg) ==
    IF HasKeyOne(agg)
        THEN CHOOSE k \in 1..Len(agg) :
                 agg[k][1] = 1 /\ \A j \in 1..(k - 1) : agg[j][1] # 1
        ELSE CHOOSE k \in 1..Len(agg) :
                 /\ \A j \in 1..Len(agg) : agg[k][1] <= agg[j][1]
                 /\ \A j \in 1..(k - 1) : agg[j][1] # agg[k][1]

\* What compute_metrics prints (line 121).
FallbackLog(agg) ==
    IF HasKeyOne(agg) THEN <<>>
    ELSE << <<"[INFO] No nthreads=1 in timings, using nthreads=",
              agg[BaseIndex(agg)][1], " as base">> >>

\* The division of line 125 or of line 126 raises ZeroDivisionError.
DivisionFails(row) == IsZero(row[3]) \/ row[1] = 0

\* sp = t_base / t
Speedup(t, tb) == FloatDiv(tb, t)

\* The efficiency cut off at 1.
EfficiencyClamped(sp, nt) ==
    IF FloatLess(One, FloatDivInt(sp, nt)) THEN One ELSE FloatDivInt(sp, nt)

\* ep = sp / nt
Efficiency(sp, nt) == FloatDivInt(sp, nt)

\* Lines 124-127: the row appended for one aggregate entry.
RowOf(row, sp) == <<row[1], row[2], row[3], sp, Efficiency(sp, row[1])>>

MetricRow(row, tb) == RowOf(row, Speedup(row[3], tb))

compute_metrics(agg) ==
    IF agg = <<>>
        THEN [raised |-> "ValueError", t_base |-> None, base_nthreads |-> None,
              log |-> <<>>, metrics |-> <<>>]
    ELSE LET b == BaseIndex(agg)
             tb == agg[b][3]
         IN  IF \E k \in 1..Len(agg) : DivisionFails(agg[k])
                 THEN [raised |-> "ZeroDivisionError", t_base |-> Some(tb),
                       base_nthreads |-> Some(agg[b][1]),
                       log |-> FallbackLog(agg), metrics |-> <<>>]
                 ELSE [raised |-> "", t_base |-> Some(tb),
                       base_nthreads |-> Some(agg[b][1]),
                       log |-> FallbackLog(agg),
                       metrics |-> [k \in 1..Len(agg) |-> MetricRow(agg[k], tb)]]

ComputeMetrics ==
    /\ pc = "compute"
    /\ err = ""
    /\ \E out \in {compute_metrics(aggregated)} :
           /\ t_base' = out.t_base
           /\ base_nthreads' = out.base_nthreads
           /\ log' = log \o out.log
           /\ metrics' = out.metrics
           /\ err' = out.raised
           /\ pc' = IF out.raised = "" THEN "save_metrics" ELSE pc
    /\ UNCHANGED <<nthreads_list, runs_per_config, nt_idx, run_idx, invocations,
                   results, timings, timings_csv, aggregated, metrics_csv,
                   mandel_exe, vars2>>

----------------------------------------------------------------------------
(* batch_run_task1.py : save_metrics_csv and the end of main               *)

MetricsHeader == <<"nthreads", "npoints", "mean_time", "acceleration", "efficiency">>

MetricsCsvRows(rows) ==
    [k \in 1..Len(rows) |->
        <<rows[k][1], rows[k][2], Fmt6(rows[k][3]), Fmt6(rows[k][4]), Fmt6(rows[k][5])>>]

SaveMetricsCsv ==
    /\ pc = "save_metrics"
    /\ metrics_csv' = Some([header |-> MetricsHeader, rows |-> MetricsCsvRows(metrics)])
    /\ pc' = "done"
    /\ UNCHANGED <<nthreads_list, runs_per_config, nt_idx, run_idx, invocations,
                   results, timings, timings_csv, aggregated, t_base,
                   base_nthreads, metrics, log, err, mandel_exe, vars2>>

----------------------------------------------------------------------------
(* batch_run_task2.py : constants                                          *)

BATCH_CONFIGS ==
    << [name |-> "N100_dt10",  tend |-> 10000, dt |-> 10, input |-> "random_N100.txt"],
       [name |-> "N100_dt5",   tend |-> 10000, dt |-> 5,  input |-> "random_N100.txt"],
       [name |-> "N100_dt2",   tend |-> 10000, dt |-> 2,  input |-> "random_N100.txt"],
       [name |-> "N500_dt10",  tend |-> 10000, dt |-> 10, input |-> "random_N500.txt"],
       [name |-> "N500_dt5",   tend |-> 10000, dt |-> 5,  input |-> "random_N500.txt"],
       [name |-> "N500_dt2",   tend |-> 10000, dt |-> 2,  input |-> "random_N500.txt"],
       [name |-> "N2000_dt10", tend |-> 10000, dt |-> 10, input |-> "random_N2000.txt"],
       [name |-> "N2000_dt5",  tend |-> 10000, dt |-> 5,  input |-> "random_N2000.txt"] >>

BATCH_CONFIGS_OMP ==
    << [name |-> "N2000_dt5_threads1",  tend |-> 10000, dt |-> 5,
        input |-> "random_N2000.txt", threads |-> 1],
       [name |-> "N2000_dt5_threads2",  tend |-> 10000, dt |-> 5,
        input |-> "random_N2000.txt", threads |-> 2],
       [name |-> "N2000_dt5_threads4",  tend |-> 10000, dt |-> 5,
        input |-> "random_N2000.txt", threads |-> 4],
       [name |-> "N2000_dt5_threads8",  tend |-> 10000, dt |-> 5,
        input |-> "random_N2000.txt", threads |-> 8],
       [name |-> "N2000_dt5_threads16", tend |-> 10000, dt |-> 5,
        input |-> "random_N2000.txt", threads |-> 16] >>

TARGETS == <<"cpu", "cuda">>

----------------------------------------------------------------------------
(* batch_run_task2.py : the configuration file                             *)

\* The contents CONFIG_PATH may have when the batch starts; None: no file.
ConfigInputs ==
    { None,
      Some(<<>>),
      Some([tend |-> 100, dt |-> 1, input |-> "solar.txt"]),
      Some([tend |-> 100, dt |-> 1, input |-> "solar.txt", n |-> 300, seed |-> 42]),
      Some([n |-> 300, eps |-> 5]) }

\* read_json_config, with FileNotFoundError caught by main (lines 90-94).
read_json_config(file) == file

\* bool(original_config): None and the empty dict are false.
Truthy(opt) == opt # None /\ DOMAIN opt[1] # {}

\* Every key of the original configuration carried over.
CarriedKeysAll(orig) == IF orig # None THEN DOMAIN orig[1] ELSE {}

\* The keys copied from the original configuration (lines 135-138).
CarriedKeys(orig) ==
    IF Truthy(orig) THEN {k \in {"n", "seed"} : k \in DOMAIN orig[1]} ELSE {}

\* new_config of lines 129-138 and 238-247.
NewConfig(cfg, orig) ==
    [k \in {"tend", "dt", "input"} \cup CarriedKeys(orig) |->
        IF k = "tend" THEN cfg.tend
        ELSE IF k = "dt" THEN cfg.dt
        ELSE IF k = "input" THEN cfg.input
        ELSE orig[1][k]]

----------------------------------------------------------------------------
(* batch_run_task2.py : collect_metrics and the summary row                *)

CpuMetricsLines ==
    << <<"N-body", " ", "CPU", " ", "metrics">>,
       <<>>,
       <<"Input file", ":", " ", "random.txt">>,
       <<"Particles", ":", " ", "100">>,
       <<"eps", ":", " ", "0.01">>,
       <<"t_end", ":", " ", "10000">>,
       <<"dt", ":", " ", "5">>,
       <<"OpenMP threads", ":", " ", "8">>,
       <<"Total steps", ":", " ", "2000">>,
       <<"Total compute time (sum of per-step)", ":", " ", "1.5", " ", "s">>,
       <<"Min step time", ":", " ", "0.0005", " ", "s">>,
       <<"Avg step time", ":", " ", "0.0007", " ", "s">>,
       <<"Steps per second (avg)", ":", " ", "1400">>,
       <<"Output trajectories", ":", " ", "C", ":", "/out/traj_cpu.csv">> >>

CudaMetricsLines ==
    << <<"N-body", " ", "CUDA", " ", "metrics">>,
       <<>>,
       <<"Input file", ":", " ", "random.txt">>,
       <<"Particles", ":", " ", "100">>,
       <<"eps", ":", " ", "0.01">>,
       <<"t_end", ":", " ", "10000">>,
       <<"dt", ":", " ", "5">>,
       <<"CUDA device", ":", " ", "GPU0">>,
       <<"Total steps", ":", " ", "2000">>,
       <<"Total kernel time (reset+forces+step)", ":", " ", "900", " ", "ms">>,
       <<"Min step time", ":", " ", "0.4", " ", "ms">>,
       <<"Avg step time", ":", " ", "0.45", " ", "ms">>,
       <<"Steps per second (avg)", ":", " ", "2200">>,
       <<"Output trajectories", ":", " ", "C", ":", "/out/traj_cuda.csv">> >>

\* The lines of `all` whose first token is not `key`.
WithoutKey(all, key) == SelectSeq(all, LAMBDA line : line = <<>> \/ line[1] # key)

\* The states the launcher may leave a target's metrics file in.
MetricsKinds == {"complete", "missing", "no_min_step", "no_steps_per_sec"}

\* Optional content of metrics_cpu.txt / metrics_cuda.txt for a kind.
MetricsFile(target, kind) ==
    LET all == IF target = "cpu" THEN CpuMetricsLines ELSE CudaMetricsLines
    IN  CASE kind = "missing" -> None
          [] kind = "complete" -> Some(all)
          [] kind = "no_min_step" -> Some(WithoutKey(all, "Min step time"))
          [] kind = "no_steps_per_sec" -> Some(WithoutKey(all, "Steps per second (avg)"))

HasColon(line) == \E k \in 1..Len(line) : line[k] = ":"

ColonAt(line) == CHOOSE k \in 1..Len(line) :
                     line[k] = ":" /\ \A j \in 1..(k - 1) : line[j] # ":"

\* key, value = line.split(":", 1), both stripped (lines 76-77).
LineKey(line) == Strip(SubSeq(line, 1, ColonAt(line) - 1))
LineValue(line) == Strip(SubSeq(line, ColonAt(line) + 1, Len(line)))

\* The lines the loop of lines 72-77 does not skip.
KeptLines(lines) == SelectSeq(lines, LAMBDA line : Strip(line) # <<>> /\ HasColon(Strip(line)))

\* The dict built by lines 70-77: a later line of a key replaces an earlier one.
ParseMetrics(lines) ==
    LET kept == KeptLines(lines)
        keys == {LineKey(Strip(kept[k])) : k \in 1..Len(kept)}
        last(key) == CHOOSE k \in 1..Len(kept) :
                         /\ LineKey(Strip(kept[k])) = key
                         /\ \A j \in (k + 1)..Len(kept) : LineKey(Strip(kept[j])) # key
    IN  [key \in keys |-> LineValue(Strip(kept[last(key)]))]

\* collect_metrics without the `return None` of lines 66-68: a missing file is
\* answered with the metrics of a complete CPU file.
collect_metrics_default(file) ==
    IF file = None THEN Some(ParseMetrics(CpuMetricsLines))
    ELSE Some(ParseMetrics(file[1]))

\* collect_metrics(target) for a metrics file: None when the file is missing.
collect_metrics(file) == IF file = None THEN None ELSE Some(ParseMetrics(file[1]))

\* metrics.get(key, default)
Get(m, key, default) == IF <<key>> \in DOMAIN m THEN m[<<key>>] ELSE default

\* value.split(): the maximal runs of non-blank tokens.
RECURSIVE Split(_)
Split(v) ==
    LET u == LStrip(v)
    IN  IF u = <<>> THEN <<>>
        ELSE LET n == IF \E k \in 1..Len(u) : u[k] = " "
                        THEN (CHOOSE k \in 1..Len(u) :
                                  u[k] = " " /\ \A j \in 1..(k - 1) : u[j] # " ") - 1
                        ELSE Len(u)
             IN  <<SubSeq(u, 1, n)>> \o Split(SubSeq(u, n + 1, Len(u)))

TimeKey(target) ==
    IF target = "cpu" THEN "Total compute time (sum of per-step)"
    ELSE "Total kernel time (reset+forces+step)"

WorkerKey(target) == IF target = "cpu" THEN "OpenMP threads" ELSE "CUDA device"

\* The keys read as metrics.get(key, "").split()[0].
SplitKeys(target) ==
    {TimeKey(target), "Min step time", "Avg step time", "Steps per second (avg)"}

\* .split()[0] raises IndexError for one of the keys (lines 168-171, 198-201,
\* 272-275).
RowRaises(m, target) == \E key \in SplitKeys(target) : Split(Get(m, key, <<>>)) = <<>>

First(key, m) == Split(Get(m, key, <<>>))[1]

\* The row of lines 175-190, 205-220 and 279-294; every field is a string.
SummaryRow(batch_name, target, input_rel, m) ==
    << <<batch_name>>,
       <<target>>,
       Get(m, "Input file", <<input_rel>>),
       Get(m, "t_end", <<>>),
       Get(m, "dt", <<>>),
       Get(m, "eps", <<>>),
       Get(m, "Particles", <<>>),
       Get(m, WorkerKey(target), <<>>),
       Get(m, "Total steps", <<>>),
       First(TimeKey(target), m),
       First("Min step time", m),
       First("Avg step time", m),
       First("Steps per second (avg)", m),
       Get(m, "Output trajectories", <<>>) >>

header_cols ==
    << <<"batch_name">>, <<"target">>, <<"input_file">>, <<"t_end">>, <<"dt">>,
       <<"eps">>, <<"particles">>, <<"threads_or_device">>, <<"total_steps">>,
       <<"total_time_s_or_ms">>, <<"min_step">>, <<"avg_step">>,
       <<"steps_per_sec">>, <<"trajectories_path">> >>

----------------------------------------------------------------------------
(* Specifications of batch_run_task1.py                                    *)

\* The state of batch_run_task2.py while it is not run.
Task2Idle ==
    /\ pc2 = "idle"
    /\ run_script_exists = FALSE
    /\ config_file = None
    /\ config_before = None
    /\ original_config = None
    /\ summary_csv = None
    /\ outf_buffer = <<>>
    /\ cfg_idx = 1
    /\ target_idx = 1
    /\ omp_idx = 1
    /\ events = <<>>
    /\ skipped = 0
    /\ exit_code = None

Task1Locals ==
    /\ nt_idx = 1
    /\ run_idx = 1
    /\ invocations = <<>>
    /\ results = <<>>
    /\ timings_csv = None
    /\ t_base = None
    /\ base_nthreads = None
    /\ metrics = <<>>
    /\ metrics_csv = None
    /\ log = <<>>
    /\ err = ""

\* main of batch_run_task1.py, entered with a configuration list and a
\* repetition count.
InitTask1 ==
    /\ nthreads_list \in BoundedSeq(Keys, MaxLen)
    /\ runs_per_config \in 0..MaxRuns
    /\ mandel_exe \in BOOLEAN
    /\ pc = "collect"
    /\ timings = <<>>
    /\ aggregated = <<>>
    /\ Task1Locals
    /\ Task2Idle

NextTask1 ==
    \/ CollectStep
    \/ ExeRemoved
    \/ CollectReturn
    \/ SaveTimingsCsv
    \/ Aggregate
    \/ ComputeMetrics
    \/ SaveMetricsCsv

SpecTask1 == InitTask1 /\ [][NextTask1]_vars

\* aggregate_by_nthreads applied to an arbitrary Trial sequence.
AggKeys == {1, 2, 4}
TrialInputs == AggKeys \X SizeParams \X {1} \X Durations

InitAggregate ==
    /\ timings \in BoundedSeq(TrialInputs, MaxTrials)
    /\ nthreads_list = <<>>
    /\ runs_per_config = 0
    /\ mandel_exe = TRUE
    /\ pc = "aggregate"
    /\ aggregated = <<>>
    /\ Task1Locals
    /\ Task2Idle

NextAggregate == Aggregate

SpecAggregate == InitAggregate /\ [][NextAggregate]_vars

\* compute_metrics applied to an arbitrary aggregate sequence.
AggInputs == MetricKeys \X {NPOINTS} \X MeanInputs

InitMetrics ==
    /\ aggregated \in BoundedSeq(AggInputs, MaxAgg)
    /\ nthreads_list = <<>>
    /\ runs_per_config = 0
    /\ mandel_exe = TRUE
    /\ pc = "compute"
    /\ timings = <<>>
    /\ Task1Locals
    /\ Task2Idle

NextMetrics == ComputeMetrics

SpecMetrics == InitMetrics /\ [][NextMetrics]_vars

----------------------------------------------------------------------------
(* batch_run_task2.py : main                                               *)

\* collect_metrics(target) for each state of the target's metrics file.
MetricsRead ==
    [target \in {"cpu", "cuda"} |->
        [kind \in MetricsKinds |-> collect_metrics(MetricsFile(target, kind))]]

WriteEvent(batch_name, content) ==
    [op |-> "write", batch |-> batch_name, target |-> "", config |-> content,
     rc |-> 0, metrics |-> "", threads |-> None]

RunEvent(batch_name, target, rc, kind, threads) ==
    [op |-> "run", batch |-> batch_name, target |-> target, config |-> config_file,
     rc |-> rc, metrics |-> kind, threads |-> threads]

\* What one launcher run leads to (lines 152-224 and 257-298): "failed" for a
\* non-zero exit code, "no_metrics" when collect_metrics returns None,
\* "raise" when building the row raises IndexError, "row" otherwise.
RunOutcome(rc, target, kind) ==
    IF rc # 0 THEN "failed"
    ELSE IF MetricsRead[target][kind] = None THEN "no_metrics"
    ELSE IF RowRaises(MetricsRead[target][kind][1], target) THEN "raise"
    ELSE "row"

\* The run is skipped by `continue` (lines 153-159 and 258-264).
IsSkipped(rc, kind) == rc # 0 \/ kind = "missing"

\* The (rc, metrics file) pairs the environment may answer a run with; the
\* metrics file is not read after a non-zero exit code.
RunAnswers ==
    {a \in ({1} \X {""}) \cup ({0} \X MetricsKinds) :
        IsSkipped(a[1], a[2]) => skipped < MaxSkipped}

\* Lines 82-116: the launcher check, the read of the original configuration
\* and the header of the summary file.  open("w") leaves an empty file on
\* disk; outf.write puts the header into the buffer of outf, and nothing
\* flushes it here.
Begin ==
    /\ pc2 = "start"
    /\ IF ~run_script_exists
         THEN /\ pc2' = "done"
              /\ exit_code' = Some(1)
              /\ UNCHANGED <<original_config, summary_csv, outf_buffer>>
         ELSE /\ original_config' = read_json_config(config_file)
              /\ summary_csv' = Some(<<>>)
              /\ outf_buffer' = <<header_cols>>
              /\ pc2' = "cfg_write"
              /\ exit_code' = exit_code
    /\ UNCHANGED <<run_script_exists, config_file, config_before, cfg_idx,
                   target_idx, omp_idx, events, skipped, vars1>>

\* Lines 118-141: the configuration of BATCH_CONFIGS[cfg_idx] is written.
WriteConfig ==
    /\ pc2 = "cfg_write"
    /\ LET cfg == BATCH_CONFIGS[cfg_idx]
           new_config == NewConfig(cfg, original_config)
       IN  /\ config_file' = Some(new_config)
           /\ events' = Append(events, WriteEvent(cfg.name, Some(new_config)))
    /\ target_idx' = 1
    /\ pc2' = "cfg_run"
    /\ UNCHANGED <<run_script_exists, config_before, original_config, summary_csv,
                   outf_buffer,
                   cfg_idx, omp_idx, skipped, exit_code, vars1>>

\* Lines 143-224: one iteration of `for target in TARGETS`.  A row is written
\* and flushed with whatever the buffer holds (lines 222-223); an IndexError
\* leaves the `with` block, which closes outf and so flushes it too.
RunTarget ==
    /\ pc2 = "cfg_run"
    /\ \E a \in RunAnswers :
         LET cfg == BATCH_CONFIGS[cfg_idx]
             target == TARGETS[target_idx]
             rc == a[1]
             kind == a[2]
             outcome == RunOutcome(rc, target, kind)
         IN  /\ events' = Append(events, RunEvent(cfg.name, target, rc, kind, None))
             /\ skipped' = IF IsSkipped(rc, kind) THEN skipped + 1 ELSE skipped
             /\ summary_csv' =
                    IF outcome = "row"
                      THEN Some(Append(summary_csv[1] \o outf_buffer,
                                SummaryRow(cfg.name, target, cfg.input,
                                           MetricsRead[target][kind][1])))
                    ELSE IF outcome = "raise"
                      THEN Some(summary_csv[1] \o outf_buffer)
                      ELSE summary_csv
             /\ outf_buffer' =
                    IF outcome \in {"row", "raise"} THEN <<>> ELSE outf_buffer
             /\ IF outcome = "raise"
                  THEN /\ pc2' = "crashed"
                       /\ exit_code' = Some(1)
                       /\ UNCHANGED <<cfg_idx, target_idx, omp_idx>>
                  ELSE /\ exit_code' = exit_code
                       /\ IF target_idx < Len(TARGETS)
                            THEN /\ target_idx' = target_idx + 1
                                 /\ UNCHANGED <<pc2, cfg_idx, omp_idx>>
                            ELSE IF cfg_idx < Len(BATCH_CONFIGS)
                            THEN /\ cfg_idx' = cfg_idx + 1
                                 /\ pc2' = "cfg_write"
                                 /\ UNCHANGED <<target_idx, omp_idx>>
                            ELSE /\ omp_idx' = 1
                                 /\ pc2' = "omp_write"
                                 /\ UNCHANGED <<cfg_idx, target_idx>>
    /\ UNCHANGED <<run_script_exists, config_file, config_before, original_config,
                   vars1>>

\* Lines 226-250: the configuration of BATCH_CONFIGS_OMP[omp_idx] is written.
WriteConfigOmp ==
    /\ pc2 = "omp_write"
    /\ LET cfg == BATCH_CONFIGS_OMP[omp_idx]
           new_config == NewConfig(cfg, original_config)
       IN  /\ config_file' = Some(new_config)
           /\ events' = Append(events, WriteEvent(cfg.name, Some(new_config)))
    /\ pc2' = "omp_run"
    /\ UNCHANGED <<run_script_exists, config_before, original_config, summary_csv,
                   outf_buffer,
                   cfg_idx, target_idx, omp_idx, skipped, exit_code, vars1>>

\* Lines 252-298: the CPU run of BATCH_CONFIGS_OMP[omp_idx] with
\* OMP_NUM_THREADS set.  After the last one the `with` block is left and outf
\* closed.
RunOmp ==
    /\ pc2 = "omp_run"
    /\ \E a \in RunAnswers :
         LET cfg == BATCH_CONFIGS_OMP[omp_idx]
             rc == a[1]
             kind == a[2]
             outcome == RunOutcome(rc, "cpu", kind)
         IN  /\ events' = Append(events,
                                 RunEvent(cfg.name, "cpu", rc, kind, Some(cfg.threads)))
             /\ skipped' = IF IsSkipped(rc, kind) THEN skipped + 1 ELSE skipped
             /\ summary_csv' =
                    IF outcome = "row"
                      THEN Some(Append(summary_csv[1] \o outf_buffer,
                                SummaryRow(cfg.name, "cpu", cfg.input,
                                           MetricsRead["cpu"][kind][1])))
                    ELSE IF outcome = "raise" \/ omp_idx = Len(BATCH_CONFIGS_OMP)
                      THEN Some(summary_csv[1] \o outf_buffer)
                      ELSE summary_csv
             /\ outf_buffer' =
                    IF outcome \in {"row", "raise"} \/ omp_idx = Len(BATCH_CONFIGS_OMP)
                      THEN <<>>
                      ELSE outf_buffer
             /\ IF outcome = "raise"
                  THEN /\ pc2' = "crashed"
                       /\ exit_code' = Some(1)
                       /\ omp_idx' = omp_idx
                  ELSE /\ exit_code' = exit_code
                       /\ IF omp_idx < Len(BATCH_CONFIGS_OMP)
                            THEN /\ omp_idx' = omp_idx + 1
                                 /\ pc2' = "omp_write"
                            ELSE /\ omp_idx' = omp_idx
                                 /\ pc2' = "restore"
    /\ UNCHANGED <<run_script_exists, config_file, config_before, original_config,
                   cfg_idx, target_idx, vars1>>

\* Lines 300-306: the original configuration is written back and main
\* returns 0.
Restore ==
    /\ pc2 = "restore"
    /\ IF original_config # None
         THEN /\ config_file' = original_config
              /\ events' = Append(events, WriteEvent("", original_config))
         ELSE UNCHANGED <<config_file, events>>
    /\ exit_code' = Some(0)
    /\ pc2' = "done"
    /\ UNCHANGED <<run_script_exists, config_before, original_config, summary_csv,
                   outf_buffer,
                   cfg_idx, target_idx, omp_idx, skipped, vars1>>

\* The state of batch_run_task1.py while it is not run.
Task1Idle ==
    /\ nthreads_list = <<>>
    /\ runs_per_config = 0
    /\ mandel_exe = FALSE
    /\ pc = "idle"
    /\ timings = <<>>
    /\ aggregated = <<>>
    /\ Task1Locals

InitTask2 ==
    /\ pc2 = "start"
    /\ run_script_exists \in BOOLEAN
    /\ config_file \in ConfigInputs
    /\ config_before = config_file
    /\ original_config = None
    /\ summary_csv = None
    /\ outf_buffer = <<>>
    /\ cfg_idx = 1
    /\ target_idx = 1
    /\ omp_idx = 1
    /\ events = <<>>
    /\ skipped = 0
    /\ exit_code = None
    /\ Task1Idle

NextTask2 ==
    \/ Begin
    \/ WriteConfig
    \/ RunTarget
    \/ WriteConfigOmp
    \/ RunOmp
    \/ Restore

SpecTask2 == InitTask2 /\ [][NextTask2]_vars

----------------------------------------------------------------------------
(* Properties of batch_run_task1.py                                        *)

\* The last external run exited non-zero or reported no usable time.
LastRunFailed ==
    /\ invocations # <<>>
    /\ LET last == invocations[Len(invocations)]
       IN  last.returncode # 0 \/ ParseTimeSeconds(last.stderr) = None

CollectAborted == pc = "collect" /\ err # ""

NoLaterStage ==
    /\ timings = <<>>
    /\ timings_csv = None
    /\ aggregated = <<>>
    /\ metrics = <<>>
    /\ metrics_csv = None

\* C2: the Mandelbrot batch aborts on the first failed trial.  A run that
\* exits non-zero or prints no TIME_SECONDS= value, or a missing executable,
\* leaves main stopped inside collect_timings with an exception; from then on
\* no further external invocation is made, and no timings CSV, aggregation or
\* metrics CSV is ever produced.
C2_AbortOnFirstFailure ==
    /\ [](LastRunFailed => CollectAborted)
    /\ [][(pc = "collect" /\ err = "" /\ ~CollectDone /\ ~mandel_exe)
            => (err' = "FileNotFoundError" /\ invocations' = invocations)]_vars
    /\ [](CollectAborted => NoLaterStage)
    /\ [][CollectAborted => UNCHANGED vars]_vars

C2_Witness ==
    /\ CollectAborted
    /\ err = "RuntimeError"
    /\ Len(invocations) >= 2
    /\ nt_idx <= Len(nthreads_list)
    /\ run_idx < runs_per_config

\* C5: when every run succeeds, collect_timings has made exactly
\* len(L) * R external invocations, one per (configuration, repetition) pair in
\* nested order, and returns one Trial per invocation in invocation order, the
\* i-th Trial carrying the configuration, repetition index and reported
\* duration of the i-th invocation.
C5_OncePerPairInOrder ==
    (pc # "collect") =>
        /\ Len(invocations) = Len(nthreads_list) * runs_per_config
        /\ Len(timings) = Len(invocations)
        /\ \A i \in 1..Len(invocations) :
              /\ invocations[i].nthreads =
                     nthreads_list[((i - 1) \div runs_per_config) + 1]
              /\ invocations[i].run = ((i - 1) % runs_per_config) + 1
              /\ timings[i][1] = invocations[i].nthreads
              /\ timings[i][3] = invocations[i].run
              /\ Some(timings[i][4]) = ParseTimeSeconds(invocations[i].stderr)

C5_Witness ==
    /\ pc = "save_timings"
    /\ Len(nthreads_list) >= 2
    /\ runs_per_config >= 2
    /\ nthreads_list[1] > nthreads_list[2]
    /\ timings[1][4] # timings[2][4]

\* C9: every recorded Trial of a successful run has a duration > 0, and
\* compute_metrics never divides by a zero mean-duration.
C9_PositiveDurationNoZeroDivision ==
    /\ \A k \in 1..Len(results) : results[k][4][1] = 1 /\ ~IsZero(results[k][4])
    /\ err # "ZeroDivisionError"

\* The positions of the lines of a stderr text whose trimmed form starts with
\* the prefix TIME_SECONDS= .
MatchingLines(stderr) ==
    {k \in 1..Len(stderr) :
        LET s == Strip(stderr[k])
        IN  Len(s) >= 2 /\ SubSeq(s, 1, 2) = <<"TIME_SECONDS", "=">>}

\* What follows the prefix on a matching line.
ValueText(line) == LET s == Strip(line) IN SubSeq(s, 3, Len(s))

\* The number a value text stands for when a decimal comma is read as a
\* decimal point; None when it is no number.
ReadDecimal(text) ==
    ParseFloat([k \in 1..Len(text) |-> IF text[k] = "," THEN "." ELSE text[k]])

\* C11: for every run of mandelbrot.exe that exited with code 0, the Metric
\* Parser returns the value of the first stderr line whose trimmed form starts
\* with TIME_SECONDS= (a later matching line is never used, a decimal comma is
\* read as a decimal point), and that value is the duration of the Trial
\* recorded for the run; when no line matches, the run ends main with
\* ValueError, no Trial is recorded for it and nothing is handed to the later
\* stages.
C11_FirstMatchOrHardError ==
    \A k \in 1..Len(invocations) :
        LET inv == invocations[k]
            M == MatchingLines(inv.stderr)
        IN  inv.returncode = 0 =>
              /\ (M = {}) =>
                    /\ k = Len(invocations)
                    /\ err = "ValueError"
                    /\ pc = "collect"
                    /\ Len(results) = k - 1
                    /\ timings = <<>>
              /\ (k <= Len(results)) =>
                    /\ M # {}
                    /\ Some(results[k][4]) =
                           ReadDecimal(ValueText(inv.stderr[SetMin(M)]))
              /\ (M # {} /\ ReadDecimal(ValueText(inv.stderr[SetMin(M)])) # None) =>
                    k <= Len(results)

\* 0.3
C11_WitnessTime == FloatOf(3, 10)

\* Three runs: a decimal comma behind a non-matching line, then two matching
\* lines with different values, then a text without a matching line.
C11_Witness ==
    /\ Len(invocations) = 3
    /\ Len(results) = 2
    /\ err = "ValueError"
    /\ MatchingLines(invocations[1].stderr) = {2}
    /\ results[1][4] = C11_WitnessTime
    /\ MatchingLines(invocations[2].stderr) = {1, 2}
    /\ results[2][4] = Zero
    /\ invocations[3].stderr # <<>>
    /\ MatchingLines(invocations[3].stderr) = {}

\* The sequence q with its elements at positions a and b exchanged.
Swap(q, a, b) ==
    [k \in 1..Len(q) |-> IF k = a THEN q[b] ELSE IF k = b THEN q[a] ELSE q[k]]

KeysOfAgg(agg) == [k \in 1..Len(agg) |-> agg[k][1]]

\* Trials of key nt in the input of aggregate_by_nthreads.
TrialsOf(nt) == {k \in 1..Len(timings) : timings[k][1] = nt}

\* a * x for a limb x.
MulLimb(a, x) ==
    BigAdd(BigAdd(BigMulSmall(a, x % 64),
                  BigShl(BigMulSmall(a, (x \div 64) % 64), 6)),
           BigAdd(BigShl(BigMulSmall(a, (x \div 4096) % 64), 12),
                  BigShl(BigMulSmall(a, x \div 262144), 18)))

\* a * b
RECURSIVE BigMul(_, _)
BigMul(a, b) ==
    IF b = <<>> THEN <<>>
    ELSE BigAdd(MulLimb(a, b[1]), BigShl(BigMul(a, Tail(b)), LimbBits))

\* The float x # 0 lies within half a unit of its last place of the quotient
\* (A * 2^ea) / (B * 2^eb) of its own sign, A and B being naturals, B > 0:
\* 2 * |man * 2^exp * B * 2^eb - A * 2^ea| <= B * 2^eb * ulp(x), computed
\* exactly.
WithinHalfUlp(x, A, ea, B, eb) ==
    LET e1 == x[3] + eb
        e3 == eb + x[3] + BigBitLen(x[2]) - 54
        e0 == SetMin({e1, ea, e3})
        P == BigShl(BigMul(x[2], B), e1 - e0)
        Q == BigShl(A, ea - e0)
        H == BigShl(B, e3 - e0)
    IN  BigCmp(IF BigCmp(P, Q) >= 0 THEN BigSub(P, Q) ELSE BigSub(Q, P), H) <= 0

\* The float x is a double nearest to sign * (A * 2^ea) / (B * 2^eb).
RoundsTo(x, sign, A, ea, B, eb) ==
    IF A = <<>> THEN IsZero(x)
    ELSE ~IsZero(x) /\ x[1] = sign /\ WithinHalfUlp(x, A, ea, B, eb)

\* The least exponent among the durations of the input.
TimingsExp == MinExp([k \in 1..Len(timings) |-> timings[k][4]])

\* The sum of the durations of the given sign of the trials in I, in units of
\* 2^TimingsExp.
RECURSIVE SumOver(_, _)
SumOver(I, sign) ==
    IF I = {} THEN <<>>
    ELSE LET k == CHOOSE j \in I : TRUE
             d == timings[k][4]
         IN  IF d[1] = sign /\ ~IsZero(d)
               THEN BigAdd(BigShl(d[2], d[3] - TimingsExp), SumOver(I \ {k}, sign))
               ELSE SumOver(I \ {k}, sign)

\* C6: aggregate_by_nthreads returns exactly one entry per distinct key of its
\* input, in strictly ascending key order; exchanging any two input trials
\* leaves the output keys and their order unchanged; and each entry's mean is
\* the float of sum(durations) / count(durations) over the trials of its key:
\* a double nearest to the exact quotient.
C6_AggregateSortedMeans ==
    (pc = "compute") =>
        /\ Range(KeysOfAgg(aggregated)) = {timings[k][1] : k \in 1..Len(timings)}
        /\ \A k \in 1..(Len(aggregated) - 1) : aggregated[k][1] < aggregated[k + 1][1]
        /\ \A a \in 1..Len(timings) : \A b \in (a + 1)..Len(timings) :
              KeysOfAgg(aggregate_by_nthreads(Swap(timings, a, b)))
                  = KeysOfAgg(aggregated)
        /\ \A k \in 1..Len(aggregated) :
              LET m == aggregated[k][3]
                  pos == SumOver(TrialsOf(aggregated[k][1]), 1)
                  neg == SumOver(TrialsOf(aggregated[k][1]), -1)
                  cnt == Cardinality(TrialsOf(aggregated[k][1]))
              IN  /\ cnt > 0
                  /\ IF BigCmp(pos, neg) >= 0
                       THEN RoundsTo(m, 1, BigSub(pos, neg), TimingsExp,
                                     BigOfInt(cnt), 0)
                       ELSE RoundsTo(m, -1, BigSub(neg, pos), TimingsExp,
                                     BigOfInt(cnt), 0)

\* 1e-06 and 0.3, whose mean 0.1500005 is no double.
C6_WitnessTimes == <<FloatOf(1, 1000000), FloatOf(3, 10)>>

C6_Witness ==
    /\ pc = "compute"
    /\ Len(timings) >= 3
    /\ timings[1][1] > timings[2][1]
    /\ timings[3][1] = timings[1][1]
    /\ timings[1][4] = C6_WitnessTimes[1]
    /\ timings[3][4] = C6_WitnessTimes[2]
    /\ Len(aggregated) = 2
    /\ Fmt6(aggregated[2][3]) = <<1, 150000>>

MinKey(agg) == SetMin(Range(KeysOfAgg(agg)))

\* C7: compute_metrics takes T_base from an entry of key 1 when there is one
\* and then reports no fallback; otherwise it takes T_base from an entry of the
\* smallest key, wherever that entry stands in the sequence, and prints one
\* line naming that key.
C7_BaselineSelection ==
    (t_base # None) =>
        IF \E k \in 1..Len(aggregated) : aggregated[k][1] = 1
        THEN /\ \E k \in 1..Len(aggregated) :
                    aggregated[k][1] = 1 /\ t_base = Some(aggregated[k][3])
             /\ base_nthreads = Some(1)
             /\ log = <<>>
        ELSE /\ \E k \in 1..Len(aggregated) :
                    /\ aggregated[k][1] = MinKey(aggregated)
                    /\ t_base = Some(aggregated[k][3])
             /\ base_nthreads = Some(MinKey(aggregated))
             /\ Len(log) = 1
             /\ log[1][2] = MinKey(aggregated)

C7_Witness ==
    /\ t_base # None
    /\ KeysOfAgg(aggregated) = <<8, 2, 4>>
    /\ base_nthreads = Some(2)
    /\ t_base = Some(aggregated[2][3])
    /\ aggregated[1][3] # aggregated[2][3]
    /\ log # <<>>

\* x rounded to 3 decimals: its sign and its thousandths.
Round3(x) == RoundScaled(x, 1000)

SpecExample == <<<<1, NPOINTS, FloatOf(10, 1)>>, <<2, NPOINTS, FloatOf(11, 2)>>,
                 <<4, NPOINTS, FloatOf(3, 1)>>>>

\* C8: when compute_metrics returns, it returns one row per input entry in
\* input order, with speedup the float of T_base / T_entry and efficiency the
\* float of speedup / key (no clamping); an entry whose mean is the baseline
\* mean has speedup 1.0 and efficiency the float of 1 / key; and means
\* [10, 5.5, 3] at keys [1, 2, 4] give speedups [1, 1.818, 3.333] and
\* efficiencies [1, 0.909, 0.833] to 3 decimals.
C8_SpeedupEfficiency ==
    (pc = "save_metrics") =>
        /\ Len(metrics) = Len(aggregated)
        /\ \A k \in 1..Len(metrics) :
              LET t == aggregated[k][3]
                  tb == t_base[1]
                  sp == metrics[k][4]
                  ep == metrics[k][5]
              IN  /\ <<metrics[k][1], metrics[k][2], metrics[k][3]>> = aggregated[k]
                  /\ RoundsTo(sp, tb[1] * t[1], tb[2], tb[3], t[2], t[3])
                  /\ RoundsTo(ep, sp[1], sp[2], sp[3], BigOfInt(metrics[k][1]), 0)
                  /\ (t = tb) => (sp = One /\ ep = FloatOf(1, metrics[k][1]))
        /\ (aggregated = SpecExample) =>
              /\ [k \in 1..3 |-> Round3(metrics[k][4])]
                     = << <<1, 1000>>, <<1, 1818>>, <<1, 3333>> >>
              /\ [k \in 1..3 |-> Round3(metrics[k][5])]
                     = << <<1, 1000>>, <<1, 909>>, <<1, 833>> >>

\* 10.0 and 3.0
C8_WitnessMeans == <<FloatOf(10, 1), FloatOf(3, 1)>>

\* A baseline of key 2 (mean 10.0) among three rows, and a row of key 3 and
\* mean 3.0 whose speedup 10.0 / 3.0 and efficiency are both rounded, the
\* efficiency being above 1.
C8_Witness ==
    /\ pc = "save_metrics"
    /\ Len(metrics) >= 3
    /\ \E k \in 1..Len(metrics) :
          /\ metrics[k][1] = base_nthreads[1]
          /\ metrics[k][1] = 2
          /\ metrics[k][3] = C8_WitnessMeans[1]
          /\ metrics[k][4] = One
    /\ \E k \in 1..Len(metrics) :
          /\ metrics[k][1] = 3
          /\ metrics[k][3] = C8_WitnessMeans[2]
          /\ Fmt6(metrics[k][4]) = <<1, 3333333>>
          /\ Fmt6(metrics[k][5]) = <<1, 1111111>>
          /\ FloatLess(One, metrics[k][5])

\* The example of C8 is among the explored inputs.
C8_ExampleWitness == pc = "save_metrics" /\ aggregated = SpecExample

----------------------------------------------------------------------------
(* Properties of batch_run_task2.py                                        *)

Terminated == pc2 \in {"done", "crashed"}

RunEvents == SelectSeq(events, LAMBDA e : e.op = "run")

ConfigWritten == \E i \in 1..Len(events) : events[i].op = "write"

\* Number of launcher invocations of a whole batch.
TotalRuns == Len(BATCH_CONFIGS) * Len(TARGETS) + Len(BATCH_CONFIGS_OMP)

\* The summary has a data row of the given batch and target.
HasRow(batch_name, target) ==
    \E k \in 2..Len(summary_csv[1]) :
        summary_csv[1][k][1] = <<batch_name>> /\ summary_csv[1][k][2] = <<target>>

\* C1: however the batch ends after its first config rewrite, the
\* configuration file finally holds what it held before the batch started.
C1_ConfigRestoredAtEnd ==
    (Terminated /\ ConfigWritten) => config_file = config_before

\* C3: a launcher run with a non-zero exit code adds no summary row and the
\* batch goes on, so that a batch in which a run failed still ends having
\* attempted every invocation of BATCH_CONFIGS x TARGETS and BATCH_CONFIGS_OMP.
C3_ContinueAfterFailedRun ==
    /\ \A i \in 1..Len(RunEvents) :
          RunEvents[i].rc # 0 => ~HasRow(RunEvents[i].batch, RunEvents[i].target)
    /\ (Terminated /\ \E i \in 1..Len(RunEvents) : RunEvents[i].rc # 0)
          => Len(RunEvents) = TotalRuns

\* C4: after a launcher run that exits 0, a metrics file that is missing or
\* lacks an expected key makes the batch skip that run and go on: main does
\* not terminate on it.
C4_MissingMetricSkipped ==
    \A i \in 1..Len(RunEvents) :
        (RunEvents[i].rc = 0 /\ RunEvents[i].metrics # "complete")
            => /\ pc2 # "crashed"
               /\ ~HasRow(RunEvents[i].batch, RunEvents[i].target)

AllConfigs ==
    [k \in 1..(Len(BATCH_CONFIGS) + Len(BATCH_CONFIGS_OMP)) |->
        IF k <= Len(BATCH_CONFIGS)
          THEN [name |-> BATCH_CONFIGS[k].name, tend |-> BATCH_CONFIGS[k].tend,
                dt |-> BATCH_CONFIGS[k].dt, input |-> BATCH_CONFIGS[k].input]
          ELSE LET c == BATCH_CONFIGS_OMP[k - Len(BATCH_CONFIGS)]
               IN  [name |-> c.name, tend |-> c.tend, dt |-> c.dt, input |-> c.input]]

ConfigNamed(batch_name) ==
    AllConfigs[CHOOSE k \in 1..Len(AllConfigs) : AllConfigs[k].name = batch_name]

\* The keys n and seed the original configuration had.
OriginalExtras ==
    IF config_before = None THEN {}
    ELSE {"n", "seed"} \cap DOMAIN config_before[1]

\* The file holds exactly the batch's tend, dt and input, and n and seed of
\* the original configuration when it had them.
HoldsConfigOf(file, batch_name) ==
    /\ file # None
    /\ DOMAIN file[1] = {"tend", "dt", "input"} \cup OriginalExtras
    /\ file[1]["tend"] = ConfigNamed(batch_name).tend
    /\ file[1]["dt"] = ConfigNamed(batch_name).dt
    /\ file[1]["input"] = ConfigNamed(batch_name).input
    /\ \A k \in OriginalExtras : file[1][k] = config_before[1][k]

\* Every launcher invocation is the latest event of the state it leads to, so
\* a property of the latest event that holds in every reachable state holds
\* of every invocation.
LastIsRun == events # <<>> /\ events[Len(events)].op = "run"

\* C10 as stated: every launcher invocation directly follows a config-file
\* write made after the previous invocation, and runs on its batch's values.
C10_WriteBeforeEachRun ==
    LastIsRun =>
        LET i == Len(events)
        IN  /\ i > 1
            /\ events[i - 1].op = "write"
            /\ HoldsConfigOf(events[i].config, events[i].batch)

\* C10 amended: the file is rewritten once per batch configuration.  Every
\* launcher invocation runs on a file holding exactly its batch's tend, dt and
\* input plus the original n and seed, written by the latest config write,
\* which is the write of its own batch configuration; that write directly
\* precedes the cpu invocation and every BATCH_CONFIGS_OMP invocation, while
\* the cuda invocation directly follows the cpu invocation of the same batch
\* configuration with no write in between.
C10_WritePerBatchConfig ==
    LastIsRun =>
        LET i == Len(events)
        IN  /\ i > 1
            /\ HoldsConfigOf(events[i].config, events[i].batch)
            /\ IF events[i].target = "cuda"
                 THEN /\ i > 2
                      /\ events[i - 1].op = "run"
                      /\ events[i - 1].target = "cpu"
                      /\ events[i - 1].batch = events[i].batch
                      /\ events[i - 2].op = "write"
                      /\ events[i - 2].batch = events[i].batch
                      /\ events[i - 2].config = events[i].config
                 ELSE /\ events[i - 1].op = "write"
                      /\ events[i - 1].batch = events[i].batch
                      /\ events[i - 1].config = events[i].config

C10_Witness ==
    /\ LastIsRun
    /\ OriginalExtras = {"n"}
    /\ events[Len(events)].target = "cuda"
    /\ events[Len(events)].batch = "N2000_dt5"
    /\ "n" \in DOMAIN events[Len(events)].config[1]
    /\ DOMAIN config_before[1] = {"n", "eps"}

\* The data rows of the summary file: what follows its first line.
DataRows(csv) == SubSeq(csv, 2, Len(csv))

\* The positions in the event log of the launcher invocations made so far.
InvocationsMade == {i \in 1..Len(events) : events[i].op = "run"}

\* The invocations made so far of the batch and target a data row names.
InvocationsOf(row) ==
    {i \in InvocationsMade :
        <<events[i].batch>> = row[1] /\ <<events[i].target>> = row[2]}

\* The first line of the summary file on disk is the 14-column header.
HeaderOnDisk ==
    /\ Len(summary_csv[1]) >= 1
    /\ summary_csv[1][1] = header_cols
    /\ Len(summary_csv[1][1]) = 14

\* The data rows on disk are rows of distinct invocations made so far, in
\* invocation order, each of an invocation that exited with code 0 and found
\* its metrics file.
RowsWellFormed ==
    LET rows == DataRows(summary_csv[1])
    IN  /\ Len(rows) <= Cardinality(InvocationsMade)
        /\ \A j \in 1..Len(rows) :
              /\ Cardinality(InvocationsOf(rows[j])) = 1
              /\ \A i \in InvocationsOf(rows[j]) :
                    /\ events[i].rc = 0
                    /\ events[i].metrics # "missing"
                    /\ (j > 1) =>
                          \A h \in InvocationsOf(rows[j - 1]) : h < i

\* The summary file on disk holds the header and then well-formed rows.
SummaryWellFormed ==
    summary_csv # None => (HeaderOnDisk /\ RowsWellFormed)

\* The summary file on disk is empty while the header waits in the buffer of
\* outf, which it does only while main is inside the `with` block and has
\* written no row; otherwise it holds the header and the buffer is empty.
SummaryWellFormedOnceFlushed ==
    summary_csv # None =>
        /\ IF summary_csv[1] = <<>>
             THEN /\ outf_buffer = <<header_cols>>
                  /\ pc2 \in {"cfg_write", "cfg_run", "omp_write", "omp_run"}
             ELSE /\ HeaderOnDisk
                  /\ outf_buffer = <<>>
        /\ RowsWellFormed

\* A step keeps the lines the summary file already has, and adds at most one
\* data row, which it does only together with a launcher invocation.
SummaryAppendOnly ==
    summary_csv # None =>
        /\ summary_csv' # None
        /\ Len(summary_csv'[1]) >= Len(summary_csv[1])
        /\ SubSeq(summary_csv'[1], 1, Len(summary_csv[1])) = summary_csv[1]
        /\ Len(DataRows(summary_csv'[1])) <= Len(DataRows(summary_csv[1])) + 1
        /\ (Len(DataRows(summary_csv'[1])) > Len(DataRows(summary_csv[1]))) =>
              /\ Len(events') = Len(events) + 1
              /\ events'[Len(events')].op = "run"

\* C12 as stated: from the moment the summary file is opened it consists of
\* the 14-column header followed by data rows; rows are only ever appended, at
\* most one per launcher invocation and in invocation order; a row belongs to
\* an invocation that exited with code 0 and whose metrics file existed when
\* read; the number of data rows never exceeds the number of invocations made
\* so far.
C12_SummaryCsvInvariant ==
    /\ []SummaryWellFormed
    /\ [][SummaryAppendOnly]_vars

\* C12 amended: the summary file on disk is empty from its opening until the
\* header, which waits in the output buffer, is flushed together with the
\* first data row or by the closing of the file (after an exception or after
\* the last invocation); from then on it consists of the 14-column header
\* followed by data rows.  At every point the lines on disk are only ever
\* appended to, with at most one data row per launcher invocation and in
\* invocation order; a row belongs to an invocation that exited with code 0
\* and whose metrics file existed when read; the number of data rows never
\* exceeds the number of invocations made so far.
C12_SummaryCsvOnceFlushed ==
    /\ []SummaryWellFormedOnceFlushed
    /\ [][SummaryAppendOnly]_vars

\* The first invocation exited with code 0 and found no metrics file, so that
\* the file on disk stayed empty; the second has just written its row, which
\* brought the header to the disk with it.
C12_Witness ==
    /\ summary_csv # None
    /\ Cardinality(InvocationsMade) = 2
    /\ \E i \in InvocationsMade : events[i].rc = 0 /\ events[i].metrics = "missing"
    /\ HeaderOnDisk
    /\ Len(DataRows(summary_csv[1])) = 1
    /\ summary_csv[1][2][2] = <<"cuda">>
    /\ outf_buffer = <<>>

====
